---- MODULE Spec2Model ----
(***************************************************************************)
(* A model of kiroku (src/kiroku/main.py): the Release class, the renderer *)
(* to_rst, the directory scanner read_releaselog_dir, write_changelog and  *)
(* the driver main.                                                        *)
(*                                                                         *)
(* A Python string is a sequence of tokens.  A directory name is a         *)
(* sequence of one-character strings, so that split("-") and int() are     *)
(* computed character by character.  The output text is a sequence of      *)
(* token records; NL is the newline character.                             *)
(***************************************************************************)
EXTENDS Integers, Sequences, FiniteSets, TLC

\* ------------------------------------------------------------------ bounds
\* Directories under the input directory, fragments per directory.
MaxDirs == 2
MaxFrags == 1
\* add_entry calls made on one Release object (specification SpecRelease).
MaxCalls == 3
\* Dash-separated components of a directory name (specification SpecNames).
MaxParts == 5

\* ----------------------------------------------------------- sequences
RECURSIVE Reverse(_)
Reverse(s) == IF s = <<>> THEN <<>> ELSE Reverse(Tail(s)) \o <<Head(s)>>

RECURSIVE Flatten(_)
Flatten(ss) == IF ss = <<>> THEN <<>> ELSE Head(ss) \o Flatten(Tail(ss))

Range(s) == {s[i] : i \in 1..Len(s)}

\* --------------------------------------------------- categories (13-20)
\* The keys of the module-level dict, in insertion order.
CategoryKeys == <<"added", "changed", "deprecated", "removed", "fixed", "security">>

CategoryHeader(k) ==
    CASE k = "added" -> "Added"
      [] k = "changed" -> "Changed"
      [] k = "deprecated" -> "Deprecated"
      [] k = "removed" -> "Removed"
      [] k = "fixed" -> "Fixed"
      [] k = "security" -> "Security"

\* ------------------------------------------------------------ dates
\* A datetime.date is <<year, month, day>>; None is NoDate.
NoDate == <<0, 0, 0>>
SentinelDate == <<9999, 1, 1>>

IsLeap(y) == (y % 4 = 0) /\ ((y % 100 # 0) \/ (y % 400 = 0))

DaysInMonth(y, m) ==
    IF m = 2 THEN (IF IsLeap(y) THEN 29 ELSE 28)
    ELSE IF m \in {4, 6, 9, 11} THEN 30 ELSE 31

\* date.__lt__: dates compare as (year, month, day).
DateLess(a, b) ==
    \/ a[1] < b[1]
    \/ a[1] = b[1] /\ a[2] < b[2]
    \/ a[1] = b[1] /\ a[2] = b[2] /\ a[3] < b[3]

\* ------------------------------------------------------------ Release
\* Release.__init__: an unreleased Release gets the sentinel date; every
\* key of categories gets an empty list.
ReleaseInit(version, date, is_released) ==
    [version |-> version,
     date |-> IF ~is_released THEN SentinelDate ELSE date,
     is_released |-> is_released,
     categories |-> [k \in Range(CategoryKeys) |-> <<>>]]

\* Variant of add_entry that ignores an unknown category instead of raising.
add_entry_lenient(rel, category_str, body) ==
    IF category_str \notin DOMAIN rel.categories
    THEN [raised |-> FALSE, rel |-> rel]
    ELSE [raised |-> FALSE,
          rel |-> [rel EXCEPT !.categories[category_str] = Append(@, body)]]

\* Variant of add_entry that inserts at the front of the list.
add_entry_prepend(rel, category_str, body) ==
    IF category_str \notin DOMAIN rel.categories
    THEN [raised |-> TRUE, rel |-> rel]
    ELSE [raised |-> FALSE,
          rel |-> [rel EXCEPT !.categories[category_str] = <<body>> \o @]]

\* Release.add_entry: raised is TRUE when ValueError is raised.
add_entry(rel, category_str, body) ==
    IF category_str \notin DOMAIN rel.categories
    THEN [raised |-> TRUE, rel |-> rel]
    ELSE [raised |-> FALSE,
          rel |-> [rel EXCEPT !.categories[category_str] = Append(@, body)]]

RECURSIVE SumLen(_, _)
SumLen(cats, keys) ==
    IF keys = {} THEN 0
    ELSE LET k == CHOOSE x \in keys : TRUE
         IN Len(cats[k]) + SumLen(cats, keys \ {k})

\* Release.item_count
item_count(rel) == SumLen(rel.categories, DOMAIN rel.categories)

\* ------------------------------------------------------------ tokens
NoBody == [dir |-> "", n |-> 0]

Tok(kind, s, version, date, body) ==
    [kind |-> kind, s |-> s, version |-> version, date |-> date, body |-> body]

Lit(s) == Tok("lit", s, <<>>, NoDate, NoBody)
NL == Tok("nl", "\n", <<>>, NoDate, NoBody)
\* f"{rel.version} ({rel.date.strftime('%Y-%m-%d')})"
TitleTok(version, date) == Tok("title", "", version, date, NoBody)
BodyTok(body) == Tok("body", "", <<>>, NoDate, body)

RST_RELEASE_SEP == <<Lit("---------------------------")>>
RST_CATEGORY_SEP == <<Lit("^^^^^^^^^^^^^^^^^^^^^^^^^^^")>>

\* "\n".join(ss)
RECURSIVE JoinNL(_)
JoinNL(ss) ==
    IF ss = <<>> THEN <<>>
    ELSE IF Len(ss) = 1 THEN ss[1]
    ELSE ss[1] \o <<NL>> \o JoinNL(Tail(ss))

\* ------------------------------------------------------------ to_rst
RECURSIVE Bullets(_)
Bullets(bodies) ==
    IF bodies = <<>> THEN <<>>
    ELSE << <<Lit("* "), BodyTok(Head(bodies))>> >> \o Bullets(Tail(bodies))

\* Variant of CategoryLines without the test of line 75.
CategoryLinesAlways(rel, c) ==
    << <<Lit(CategoryHeader(c))>>, RST_CATEGORY_SEP >>
        \o Bullets(rel.categories[c]) \o << <<>> >>

\* The lines one category contributes (lines 75-80).
CategoryLines(rel, c) ==
    IF Len(rel.categories[c]) > 0
    THEN << <<Lit(CategoryHeader(c))>>, RST_CATEGORY_SEP >>
            \o Bullets(rel.categories[c]) \o << <<>> >>
    ELSE <<>>

RECURSIVE AllCategoryLines(_, _)
AllCategoryLines(rel, keys) ==
    IF keys = <<>> THEN <<>>
    ELSE CategoryLines(rel, Head(keys)) \o AllCategoryLines(rel, Tail(keys))

\* The list ss that to_rst builds.
RstLines(rel) ==
    (IF ~rel.is_released
     THEN << <<Lit("Unreleased")>>, RST_RELEASE_SEP >>
     ELSE << <<TitleTok(rel.version, rel.date)>>, RST_RELEASE_SEP >>)
    \o AllCategoryLines(rel, CategoryKeys)
    \o << <<>> >>

to_rst(rel) == JoinNL(RstLines(rel))

\* ------------------------------------------------- directory names
\* os.path.basename(d) as its characters.
DirNames == {"unreleased", "next", "2024-01-01-1.0.0", "2024-06-01-1.1.0", "9999-12-31-2.0",
             "1-1-2147483648-x"}

NameChars(n) ==
    CASE n = "unreleased" -> <<"u", "n", "r", "e", "l", "e", "a", "s", "e", "d">>
      [] n = "next" -> <<"n", "e", "x", "t">>
      [] n = "2024-01-01-1.0.0" -> <<"2", "0", "2", "4", "-", "0", "1", "-", "0", "1", "-", "1", ".", "0", ".", "0">>
      [] n = "2024-06-01-1.1.0" -> <<"2", "0", "2", "4", "-", "0", "6", "-", "0", "1", "-", "1", ".", "1", ".", "0">>
      [] n = "9999-12-31-2.0" -> <<"9", "9", "9", "9", "-", "1", "2", "-", "3", "1", "-", "2", ".", "0">>
      [] n = "1-1-2147483648-x" -> <<"1", "-", "1", "-", "2", "1", "4", "7", "4", "8", "3", "6", "4", "8", "-", "x">>

IsDigit(c) == c \in {"0", "1", "2", "3", "4", "5", "6", "7", "8", "9"}

DigitVal(c) ==
    CASE c = "0" -> 0 [] c = "1" -> 1 [] c = "2" -> 2 [] c = "3" -> 3
      [] c = "4" -> 4 [] c = "5" -> 5 [] c = "6" -> 6 [] c = "7" -> 7
      [] c = "8" -> 8 [] c = "9" -> 9

\* str.split("-"): the fields between the dashes, empty fields included.
RECURSIVE SplitDash(_)
SplitDash(s) ==
    IF \A i \in 1..Len(s) : s[i] # "-" THEN <<s>>
    ELSE LET i == CHOOSE j \in 1..Len(s) :
                      s[j] = "-" /\ \A k \in 1..(j - 1) : s[k] # "-"
         IN <<SubSeq(s, 1, i - 1)>> \o SplitDash(SubSeq(s, i + 1, Len(s)))

\* int(s) for a string of digits with an optional sign: ok is FALSE when
\* int raises ValueError; big is TRUE when the value does not fit a C int
\* (above 2147483647), and val is the value otherwise.
IntDigits(s) == IF s # <<>> /\ s[1] \in {"+", "-"} THEN Tail(s) ELSE s

RECURSIVE DigitsVal(_, _)
DigitsVal(s, acc) ==
    IF s = <<>> THEN acc
    ELSE IF acc = -1 \/ acc > (2147483647 - DigitVal(Head(s))) \div 10 THEN -1
    ELSE DigitsVal(Tail(s), acc * 10 + DigitVal(Head(s)))

IntParse(s) ==
    LET b == IntDigits(s)
        ok == b # <<>> /\ \A i \in 1..Len(b) : IsDigit(b[i])
        v == IF ok THEN DigitsVal(b, 0) ELSE 0
        neg == s # <<>> /\ s[1] = "-"
    IN [ok |-> ok, big |-> v = -1, val |-> IF v = -1 THEN 0 ELSE IF neg THEN -v ELSE v]

\* datetime.date(year, month, day) raises ValueError outside the calendar.
DateValid(y, m, d) ==
    /\ y >= 1 /\ y <= 9999
    /\ m >= 1 /\ m <= 12
    /\ d >= 1 /\ d <= DaysInMonth(y, m)

\* The except branch (lines 103-106) of read_releaselog_dir.
Fallback(name) ==
    [exc |-> "none", version |-> name, date |-> NoDate, is_released |-> FALSE]

\* The try statement of read_releaselog_dir (lines 99-106) on one directory
\* name.  A ValueError (the unpacking of other than four fields, int(), a
\* date outside the calendar) is caught; the OverflowError that
\* datetime.date raises for an argument beyond a C int is not.
ReadDirName(name) ==
    LET parts == SplitDash(name) IN
    IF Len(parts) # 4 THEN Fallback(name)
    ELSE LET y == IntParse(parts[1])
             m == IntParse(parts[2])
             d == IntParse(parts[3])
         IN IF ~y.ok \/ ~m.ok \/ ~d.ok THEN Fallback(name)
            ELSE IF y.big \/ m.big \/ d.big
            THEN [exc |-> "OverflowError", version |-> parts[4],
                  date |-> NoDate, is_released |-> TRUE]
            ELSE IF DateValid(y.val, m.val, d.val)
            THEN [exc |-> "none", version |-> parts[4],
                  date |-> <<y.val, m.val, d.val>>, is_released |-> TRUE]
            ELSE Fallback(name)

\* Components the directory names of SpecNames are built from.
Components == {<<>>,
                <<"v">>,
                <<"0">>,
                <<"2">>,
                <<"2", "9">>,
                <<"2", "0", "2", "3">>,
                <<"2", "0", "2", "4">>,
                <<"2", "1", "4", "7", "4", "8", "3", "6", "4", "8">>}

RECURSIVE JoinDash(_)
JoinDash(parts) ==
    IF Len(parts) = 1 THEN parts[1]
    ELSE parts[1] \o <<"-">> \o JoinDash(Tail(parts))

\* --------------------------------------------------- write_changelog
\* releases.sort(key=lambda x: x.date, reverse=True): list.sort is stable,
\* and with reverse=True elements with equal keys keep their order (the
\* list is reversed, sorted ascending, and reversed again).
RECURSIVE InsertAsc(_, _)
InsertAsc(x, s) ==
    IF s = <<>> THEN <<x>>
    ELSE IF DateLess(x.date, Head(s).date) THEN <<x>> \o s
    ELSE <<Head(s)>> \o InsertAsc(x, Tail(s))

RECURSIVE StableSortAsc(_, _)
StableSortAsc(l, acc) ==
    IF l = <<>> THEN acc ELSE StableSortAsc(Tail(l), InsertAsc(Head(l), acc))

\* Variants of the sort: without reverse=True, and reversing a sorted list.
SortAscending(l) == StableSortAsc(l, <<>>)

SortThenReverse(l) == Reverse(StableSortAsc(l, <<>>))

SortByDateReverse(l) == Reverse(StableSortAsc(Reverse(l), <<>>))

\* Variants of ShouldRender with one of its two tests left out.
ShouldRenderIgnoringHide(rel, hide) == item_count(rel) > 0

ShouldRenderIgnoringCount(rel, hide) == ~(hide /\ ~rel.is_released)

\* The two tests of the loop body (lines 122-125).
ShouldRender(rel, hide) ==
    /\ ~(hide /\ ~rel.is_released)
    /\ item_count(rel) > 0

\* The releases the loop passes to to_rst, in order.
RECURSIVE RenderedOf(_, _)
RenderedOf(rels, hide) ==
    IF rels = <<>> THEN <<>>
    ELSE (IF ShouldRender(Head(rels), hide) THEN <<Head(rels)>> ELSE <<>>)
         \o RenderedOf(Tail(rels), hide)

\* What write_changelog writes to text_io, given the sorted list.
WrittenText(sorted, hdr, ftr, hide) ==
    LET rs == RenderedOf(sorted, hide)
    IN hdr \o Flatten([i \in 1..Len(rs) |-> to_rst(rs[i])]) \o ftr

\* ==================================================================
\* State
\* ==================================================================
VARIABLES
    \* main(): the input and the position of the run
    input_kind,       \* what args.input_dir names: "directory", "file", "missing"
    fs_dirs,          \* the subdirectories in glob order: [name, cats]
    hide_unreleased,  \* args.hide_unreleased
    pc,               \* "scan", "entries", "write", "print", "raised", "exit"
    di,               \* index of the directory the scanner is at
    fi,               \* index of the next fragment of that directory
    rel,              \* the Release under construction
    releases,         \* the list read_releaselog_dir builds, write_changelog sorts
    header,
    footer,
    text,             \* the StringIO sio
    rendered,         \* the releases passed to to_rst, in call order
    stdout,
    exit_code,        \* -1 while the process runs
    error,            \* the uncaught exception
    \* one Release object used on its own (SpecRelease)
    obj,
    calls,            \* add_entry calls made
    accepted,         \* add_entry calls that returned
    last_call,        \* [category, body, result] of the last add_entry call
    rpc,              \* "building", "rendered"
    rst,              \* what to_rst returned
    \* one directory name (SpecNames)
    dname,
    npc,              \* "start", "built", "raised"
    built             \* the Release built for dname

mainVars == <<input_kind, fs_dirs, hide_unreleased, pc, di, fi, rel, releases,
              header, footer, text, rendered, stdout, exit_code, error>>
relVars == <<obj, calls, accepted, last_call, rpc, rst>>
nameVars == <<dname, npc, built>>
vars == <<mainVars, relVars, nameVars>>

NoRelease == ReleaseInit(<<>>, NoDate, TRUE)
NoCall == [category |-> "", body |-> NoBody, result |-> "none"]

\* Categories the fragment files of the run carry; "bogus" is unrecognised.
FragCategories == {"added", "bogus"}
\* Categories and bodies passed to add_entry in SpecRelease.
CallCategories == Range(CategoryKeys) \cup {"bogus"}
CallBodies == {[dir |-> "", n |-> 1], [dir |-> "", n |-> 2]}

SeqsUpTo(S, n) == UNION {[1..k -> S] : k \in 0..n}

\* The directory listings: distinct names, each with its fragments.
DirListings ==
    {ds \in SeqsUpTo([name : DirNames, cats : SeqsUpTo(FragCategories, MaxFrags)],
                     MaxDirs) :
        \A i, j \in 1..Len(ds) : i # j => ds[i].name # ds[j].name}

\* The content of the files header and footer when they exist.
HeaderText == <<Lit("header"), NL>>
FooterText == <<Lit("footer"), NL>>

MainIdle ==
    /\ input_kind = "missing" /\ fs_dirs = <<>> /\ hide_unreleased = FALSE
    /\ pc = "exit" /\ di = 1 /\ fi = 1 /\ rel = NoRelease /\ releases = <<>>
    /\ header = <<>> /\ footer = <<>> /\ text = <<>> /\ rendered = <<>>
    /\ stdout = <<>> /\ exit_code = -1 /\ error = "none"

RelIdle ==
    /\ obj = NoRelease /\ calls = 0 /\ accepted = 0 /\ last_call = NoCall
    /\ rpc = "rendered" /\ rst = <<>>

NameIdle == dname = <<>> /\ npc = "built" /\ built = NoRelease

\* ==================================================================
\* main (lines 129-140)
\* ==================================================================
Init ==
    /\ input_kind \in {"directory", "file", "missing"}
    /\ fs_dirs \in DirListings
    /\ input_kind # "directory" => fs_dirs = <<>>
    /\ hide_unreleased \in BOOLEAN
    /\ pc = "scan" /\ di = 1 /\ fi = 1 /\ rel = NoRelease /\ releases = <<>>
    /\ header = <<>> /\ footer = <<>> /\ text = <<>> /\ rendered = <<>>
    /\ stdout = <<>> /\ exit_code = -1 /\ error = "none"
    /\ RelIdle /\ NameIdle

\* Lines 99-107: the name of the next directory is parsed and its Release
\* is constructed.
ScanDir ==
    /\ pc = "scan" /\ di <= Len(fs_dirs)
    /\ LET r == ReadDirName(NameChars(fs_dirs[di].name)) IN
       IF r.exc # "none"
       THEN /\ pc' = "raised" /\ error' = r.exc
            /\ UNCHANGED <<rel, fi>>
       ELSE /\ rel' = ReleaseInit(r.version, r.date, r.is_released)
            /\ fi' = 1 /\ pc' = "entries"
            /\ UNCHANGED error
    /\ UNCHANGED <<input_kind, fs_dirs, hide_unreleased, di, releases, header,
                   footer, text, rendered, stdout, exit_code, relVars, nameVars>>

\* Lines 108-111: the next fragment is loaded and added.
AddEntry ==
    /\ pc = "entries" /\ fi <= Len(fs_dirs[di].cats)
    /\ LET entry == [category |-> fs_dirs[di].cats[fi],
                     body |-> [dir |-> fs_dirs[di].name, n |-> fi]]
           r == add_entry(rel, entry.category, entry.body)
       IN IF r.raised
          THEN /\ pc' = "raised" /\ error' = "ValueError"
               /\ UNCHANGED <<rel, fi>>
          ELSE /\ rel' = r.rel /\ fi' = fi + 1
               /\ UNCHANGED <<pc, error>>
    /\ UNCHANGED <<input_kind, fs_dirs, hide_unreleased, di, releases, header,
                   footer, text, rendered, stdout, exit_code, relVars, nameVars>>

\* Line 112: releases += [rel]
EndDir ==
    /\ pc = "entries" /\ fi > Len(fs_dirs[di].cats)
    /\ releases' = Append(releases, rel)
    /\ di' = di + 1 /\ pc' = "scan"
    /\ UNCHANGED <<input_kind, fs_dirs, hide_unreleased, fi, rel, header, footer,
                   text, rendered, stdout, exit_code, error, relVars, nameVars>>

\* Lines 113 and 136-138: the scan returns; read_text gives "" for a file
\* that does not exist, which is every file when input_dir is no directory.
ReadTexts ==
    /\ pc = "scan" /\ di > Len(fs_dirs)
    /\ \E h \in {<<>>, HeaderText}, f \in {<<>>, FooterText} :
        /\ input_kind # "directory" => h = <<>> /\ f = <<>>
        /\ header' = h /\ footer' = f
    /\ pc' = "write"
    /\ UNCHANGED <<input_kind, fs_dirs, hide_unreleased, di, fi, rel, releases,
                   text, rendered, stdout, exit_code, error, relVars, nameVars>>

\* write_changelog (lines 116-126): the list is sorted in place.
WriteChangelog ==
    /\ pc = "write"
    /\ LET sorted == SortByDateReverse(releases) IN
        /\ releases' = sorted
        /\ rendered' = RenderedOf(sorted, hide_unreleased)
        /\ text' = WrittenText(sorted, header, footer, hide_unreleased)
    /\ pc' = "print"
    /\ UNCHANGED <<input_kind, fs_dirs, hide_unreleased, di, fi, rel, header,
                   footer, stdout, exit_code, error, relVars, nameVars>>

\* Line 140: print(sio.getvalue()), and the process ends.
PrintResult ==
    /\ pc = "print"
    /\ stdout' = text \o <<NL>>
    /\ exit_code' = 0 /\ pc' = "exit"
    /\ UNCHANGED <<input_kind, fs_dirs, hide_unreleased, di, fi, rel, releases,
                   header, footer, text, rendered, error, relVars, nameVars>>

\* An exception nothing catches ends the process with status 1 and a
\* traceback on standard error; nothing was printed.
Uncaught ==
    /\ pc = "raised"
    /\ exit_code' = 1 /\ pc' = "exit"
    /\ UNCHANGED <<input_kind, fs_dirs, hide_unreleased, di, fi, rel, releases,
                   header, footer, text, rendered, stdout, error, relVars, nameVars>>

Next == ScanDir \/ AddEntry \/ EndDir \/ ReadTexts \/ WriteChangelog
            \/ PrintResult \/ Uncaught

Spec == Init /\ [][Next]_vars

\* ==================================================================
\* One Release object: add_entry calls, then to_rst
\* ==================================================================
InitRelease ==
    /\ obj \in {ReleaseInit(<<"1", ".", "2", ".", "0">>, <<2024, 3, 15>>, TRUE),
                ReleaseInit(<<"u", "n", "r", "e", "l", "e", "a", "s", "e", "d">>,
                            NoDate, FALSE)}
    /\ calls = 0 /\ accepted = 0 /\ last_call = NoCall
    /\ rpc = "building" /\ rst = <<>>
    /\ MainIdle /\ NameIdle

\* A caller calls add_entry and goes on after a ValueError.
CallAddEntry ==
    /\ rpc = "building" /\ calls < MaxCalls
    /\ \E c \in CallCategories, b \in CallBodies :
        LET r == add_entry(obj, c, b) IN
        /\ obj' = r.rel
        /\ calls' = calls + 1
        /\ accepted' = IF r.raised THEN accepted ELSE accepted + 1
        /\ last_call' = [category |-> c, body |-> b,
                         result |-> IF r.raised THEN "ValueError" ELSE "ok"]
    /\ UNCHANGED <<rpc, rst, mainVars, nameVars>>

CallToRst ==
    /\ rpc = "building"
    /\ rst' = to_rst(obj)
    /\ rpc' = "rendered"
    /\ UNCHANGED <<obj, calls, accepted, last_call, mainVars, nameVars>>

NextRelease == CallAddEntry \/ CallToRst

SpecRelease == InitRelease /\ [][NextRelease]_vars

\* ==================================================================
\* One directory name through lines 99-107
\* ==================================================================
InitNames ==
    /\ \E k \in 1..MaxParts : \E parts \in [1..k -> Components] :
        dname = JoinDash(parts)
    /\ dname # <<>>
    /\ npc = "start" /\ built = NoRelease
    /\ MainIdle /\ RelIdle

BuildRelease ==
    /\ npc = "start"
    /\ LET r == ReadDirName(dname) IN
        /\ r.exc = "none"
        /\ built' = ReleaseInit(r.version, r.date, r.is_released)
    /\ npc' = "built"
    /\ UNCHANGED <<dname, mainVars, relVars>>

RaiseOverflow ==
    /\ npc = "start"
    /\ ReadDirName(dname).exc # "none"
    /\ npc' = "raised"
    /\ UNCHANGED <<dname, built, mainVars, relVars>>

NextNames == BuildRelease \/ RaiseOverflow

SpecNames == InitNames /\ [][NextNames]_vars

\* ==================================================================
\* Properties
\* ==================================================================
\* write_changelog has returned: text holds everything it wrote.
Written == pc = "print" \/ (pc = "exit" /\ exit_code = 0)

Occurs(tok, t) == \E i \in 1..Len(t) : t[i] = tok

FirstIndex(tok, t) ==
    CHOOSE i \in 1..Len(t) : t[i] = tok /\ \A j \in 1..(i - 1) : t[j] # tok

Count(tok, t) == Cardinality({i \in 1..Len(t) : t[i] = tok})

TitleOf(r) == TitleTok(r.version, r.date)

Bodies(r) == UNION {Range(r.categories[k]) : k \in DOMAIN r.categories}

Recognised == Range(CategoryKeys)

\* Some fragment of the input carries an unrecognised category.
HasBadFragment ==
    \E i \in 1..Len(fs_dirs) : \E j \in 1..Len(fs_dirs[i].cats) :
        fs_dirs[i].cats[j] \notin Recognised

\* The text between the newlines.
RECURSIVE SplitNL(_)
SplitNL(t) ==
    IF \A i \in 1..Len(t) : t[i] # NL THEN <<t>>
    ELSE LET i == FirstIndex(NL, t)
         IN <<SubSeq(t, 1, i - 1)>> \o SplitNL(SubSeq(t, i + 1, Len(t)))

\* ------------------------------------------------------------------
\* C1: with hide_unreleased = false, every block of an unreleased release
\* is written before every block of a released release, whatever the
\* dates of the released releases.
C1_UnreleasedBeforeReleased ==
    (Written /\ ~hide_unreleased) =>
        \A i, j \in 1..Len(rendered) :
            (~rendered[i].is_released /\ rendered[j].is_released) => i < j

\* ------------------------------------------------------------------
\* C2: of two released releases that both have an entry, the one with the
\* strictly later date has its block earlier in the written text, in
\* whatever order the scanner found them.
C2_DescendingDates ==
    Written =>
        \A a, b \in Range(releases) :
            (/\ a.is_released /\ b.is_released
             /\ item_count(a) > 0 /\ item_count(b) > 0
             /\ DateLess(b.date, a.date))
            => /\ Occurs(TitleOf(a), text) /\ Occurs(TitleOf(b), text)
               /\ FirstIndex(TitleOf(a), text) < FirstIndex(TitleOf(b), text)

\* The scanner found the older release first and both were written.
C2_Witness ==
    /\ Written
    /\ Len(fs_dirs) = 2
    /\ fs_dirs[1].name = "2024-01-01-1.0.0" /\ fs_dirs[2].name = "2024-06-01-1.1.0"
    /\ Len(rendered) = 2
    /\ rendered[1].date = <<2024, 6, 1>> /\ rendered[2].date = <<2024, 1, 1>>

\* ------------------------------------------------------------------
\* C3: with hide_unreleased = true no block titled Unreleased is written,
\* however many entries the unreleased releases hold, and every released
\* release with an entry is written.
C3_HideUnreleased ==
    (Written /\ hide_unreleased) =>
        /\ ~Occurs(Lit("Unreleased"), text)
        /\ \A r \in Range(rendered) : r.is_released
        /\ \A r \in Range(releases) :
              (r.is_released /\ item_count(r) > 0)
              => /\ Occurs(TitleOf(r), text)
                 /\ \A b \in Bodies(r) : Occurs(BodyTok(b), text)

C3_Witness ==
    /\ Written /\ hide_unreleased
    /\ \E r \in Range(releases) : ~r.is_released /\ item_count(r) > 0
    /\ \E r \in Range(releases) : r.is_released /\ item_count(r) > 0
    /\ Len(rendered) = 1

\* ------------------------------------------------------------------
\* C4: a release without entries is never passed to to_rst and has no
\* block in the output, released or not and whatever hide_unreleased is;
\* item_count is the number of add_entry calls that succeeded on the
\* release.
C4_EmptyNeverRendered ==
    /\ Written =>
          /\ \A r \in Range(rendered) : item_count(r) > 0
          /\ Count(RST_RELEASE_SEP[1], text) = Len(rendered)
          /\ \A r \in Range(releases) :
                (r.is_released /\ item_count(r) = 0) => ~Occurs(TitleOf(r), text)
          /\ (\A r \in Range(releases) : item_count(r) = 0 \/ ~r.is_released)
                => \A i \in 1..Len(text) : text[i].kind # "title"
          /\ (\A r \in Range(releases) : item_count(r) = 0 \/ r.is_released)
                => ~Occurs(Lit("Unreleased"), text)
    /\ pc = "entries" => item_count(rel) = fi - 1
    /\ pc \in {"scan", "entries", "write"} =>
          \A i \in 1..Len(releases) : item_count(releases[i]) = Len(fs_dirs[i].cats)

\* A released and an unreleased release without entries next to a release
\* that was written.
C4_Witness ==
    /\ Written /\ ~hide_unreleased
    /\ \E r \in Range(releases) : item_count(r) = 0
    /\ \E r \in Range(releases) : item_count(r) > 0
    /\ Len(rendered) = 1

\* ------------------------------------------------------------------
\* C5: when a fragment carries an unrecognised category the run fails and
\* nothing is ever written, not the header and not the block of a release
\* scanned before; a run ends with the complete changelog or with an error
\* and empty output.
C5_NoPartialOutput ==
    /\ HasBadFragment =>
          /\ text = <<>> /\ stdout = <<>>
          /\ pc \notin {"write", "print"}
          /\ pc = "exit" => exit_code # 0 /\ error # "none"
    /\ pc = "exit" =>
          \/ exit_code = 0 /\ stdout = text \o <<NL>> /\ ~HasBadFragment
                /\ SubSeq(text, 1, Len(header)) = header
                /\ SubSeq(text, Len(text) - Len(footer) + 1, Len(text)) = footer
          \/ exit_code # 0 /\ stdout = <<>>

\* The run failed after the fragments of an earlier release were accepted.
C5_Witness ==
    /\ pc = "exit" /\ exit_code = 1 /\ HasBadFragment
    /\ \E r \in Range(releases) : item_count(r) > 0

\* ------------------------------------------------------------------
\* C6: an input directory that does not exist or is not a directory is a
\* fatal error; the run does not end successfully with an empty changelog.
C6_MissingInputDirFails ==
    input_kind # "directory" => ~(pc = "exit" /\ exit_code = 0)

\* ------------------------------------------------------------------
\* C7: a directory name gives a released Release (version the fourth
\* component, date that of the first three) exactly when it splits on "-"
\* into four components whose first three are numeric and form a valid
\* calendar date; every other name gives an unreleased Release with the
\* whole name as version and the date 9999-01-01.
ClaimedReleased(name) ==
    LET parts == SplitDash(name) IN
    /\ Len(parts) = 4
    /\ \A i \in 1..3 : IntParse(parts[i]).ok
    /\ \A i \in 1..3 : ~IntParse(parts[i]).big
    /\ DateValid(IntParse(parts[1]).val, IntParse(parts[2]).val, IntParse(parts[3]).val)

C7_NameDecidesRelease ==
    npc # "start" =>
        /\ npc = "built"
        /\ IF ClaimedReleased(dname)
           THEN LET parts == SplitDash(dname) IN
                /\ built.is_released
                /\ built.version = parts[4]
                /\ built.date = <<IntParse(parts[1]).val, IntParse(parts[2]).val,
                                  IntParse(parts[3]).val>>
           ELSE /\ ~built.is_released
                /\ built.version = dname
                /\ built.date = SentinelDate

\* ------------------------------------------------------------------
\* C8: to_rst lists the category sections in the order Added, Changed,
\* Deprecated, Removed, Fixed, Security whatever the order of the
\* add_entry calls; a header is there exactly when its category has an
\* entry; under it is one bullet line per entry, in the order added.
HeaderLine(k) == <<Lit(CategoryHeader(k))>>

BulletLine(b) == <<Lit("* "), BodyTok(b)>>

IsBulletLine(l) == Len(l) = 2 /\ l[1] = Lit("* ")

C8_SectionsInFixedOrder ==
    rpc = "rendered" =>
        LET ls == SplitNL(rst)
            At(k) == {i \in 1..Len(ls) : ls[i] = HeaderLine(k)}
            Idx(k) == CHOOSE i \in At(k) : TRUE
        IN /\ \A k \in Recognised :
                LET n == Len(obj.categories[k]) IN
                /\ n = 0 => At(k) = {}
                /\ n > 0 =>
                     /\ Cardinality(At(k)) = 1
                     /\ Idx(k) + n + 1 <= Len(ls)
                     /\ ls[Idx(k) + 1] = RST_CATEGORY_SEP
                     /\ \A j \in 1..n :
                            ls[Idx(k) + 1 + j] = BulletLine(obj.categories[k][j])
                     /\ ~IsBulletLine(ls[Idx(k) + n + 2])
           /\ \A p, q \in 1..Len(CategoryKeys) :
                (/\ p < q
                 /\ Len(obj.categories[CategoryKeys[p]]) > 0
                 /\ Len(obj.categories[CategoryKeys[q]]) > 0)
                => Idx(CategoryKeys[p]) < Idx(CategoryKeys[q])
           /\ Cardinality({i \in 1..Len(ls) : IsBulletLine(ls[i])}) = item_count(obj)

\* Fixed got its entry before Added got its second one.
C8_Witness ==
    /\ rpc = "rendered"
    /\ Len(obj.categories["fixed"]) = 1
    /\ Len(obj.categories["added"]) = 2
    /\ obj.categories["added"][1] # obj.categories["added"][2]
    /\ last_call.category = "added"

\* ------------------------------------------------------------------
\* C9: releases whose dates tie keep their discovery order in the output;
\* of two unreleased releases with an entry each, the one found first is
\* written first, although the sort is a reversed one.
FirstBody(i) == BodyTok([dir |-> fs_dirs[i].name, n |-> 1])

DateOfDir(i) ==
    LET r == ReadDirName(NameChars(fs_dirs[i].name))
    IN ReleaseInit(r.version, r.date, r.is_released).date

C9_TiesKeepDiscoveryOrder ==
    (Written /\ ~hide_unreleased) =>
        \A i, j \in 1..Len(fs_dirs) :
            (/\ i < j
             /\ DateOfDir(i) = DateOfDir(j)
             /\ Len(fs_dirs[i].cats) > 0 /\ Len(fs_dirs[j].cats) > 0)
            => /\ Occurs(FirstBody(i), text) /\ Occurs(FirstBody(j), text)
               /\ FirstIndex(FirstBody(i), text) < FirstIndex(FirstBody(j), text)

C9_Witness ==
    /\ Written /\ ~hide_unreleased
    /\ Len(rendered) = 2
    /\ ~rendered[1].is_released /\ ~rendered[2].is_released

\* ------------------------------------------------------------------
\* C10: a Release always has exactly the six category keys; add_entry with
\* an unrecognised category raises and changes no list; an accepted
\* add_entry appends the body to one list and leaves the other five alone.
SixKeys == DOMAIN obj.categories = Recognised

AddEntryEffect ==
    calls' = calls + 1 =>
        LET c == last_call'.category
            b == last_call'.body
        IN IF c \in Recognised
           THEN /\ last_call'.result = "ok"
                /\ obj'.categories[c] = Append(obj.categories[c], b)
                /\ \A k \in Recognised \ {c} : obj'.categories[k] = obj.categories[k]
           ELSE /\ last_call'.result = "ValueError"
                /\ obj' = obj

C10_SixKeysAndAddEntry == []SixKeys /\ [][AddEntryEffect]_vars

\* A call was rejected after another had been accepted.
C10_Witness ==
    /\ last_call.result = "ValueError"
    /\ accepted >= 1
    /\ SixKeys

====
